---- MODULE Spec2Model ----
(***************************************************************************)
(* Model of amazon_price_tracker_bot (src/main.py): the category pipeline  *)
(* fetch -> extract -> classify -> compose -> dispatch, and the scheduling *)
(* loop of main().                                                         *)
(*                                                                         *)
(* Four specifications share the definitions below:                        *)
(*   Spec         main(): validation, startup notice, passes of run_check  *)
(*                and the schedule loop, one step per blocking call, over  *)
(*                a site whose pages hold at most one card;                *)
(*   SpecPass     one pass of run_check, from its call in main to its      *)
(*                return, over a site whose pages hold up to MaxCards;     *)
(*   SpecBand     one pass of run_check over one category, whose page      *)
(*                holds up to MaxCards cards priced on, inside and         *)
(*                outside the ends of the price band and the mega band;    *)
(*   SpecExtract  fetch_category_products applied to one page drawn from a *)
(*                bounded family of pages long enough to reach max_items.  *)
(*                                                                         *)
(* Numbers are whole rupees.  A value read from the page is a record       *)
(* None or Num(n); a strike-through price may also be Inf (float("inf"),   *)
(* which float() accepts as text).  A card of the page is described by     *)
(* what its spans parse to.                                                *)
(***************************************************************************)
EXTENDS Integers, Sequences, FiniteSets, TLC

\* ------------------------------------------------------------------------
\* USER SETTINGS (src/main.py:22-53)
\* ------------------------------------------------------------------------
MIN_PRICE == 150
MAX_PRICE == 1000
MEGA_MIN == 80
MEGA_MAX == 95
CHECK_INTERVAL_MIN == 5
\* max_items=12 at the call in run_check
MAX_ITEMS == 12
\* time.sleep(5) in the loop of main, in seconds
SLEEP_SLICE == 5
\* CATEGORIES, in the insertion order of the dict
ALL_CATEGORIES == <<"mobiles", "accessories", "home", "watches">>

\* ------------------------------------------------------------------------
\* Bounds of the model
\* ------------------------------------------------------------------------
\* longest run of equal cards in a page of SpecExtract
MaxRun == 13
\* longest page in SpecPass
MaxCards == 2
\* most categories configured
MaxCats == 2
\* scheduled passes after the initial one in Spec
MaxPasses == 2
\* most seconds a sleep overruns SLEEP_SLICE
MaxJitter == 1

\* ------------------------------------------------------------------------
\* Values
\* ------------------------------------------------------------------------
None == [kind |-> "none"]
Inf == [kind |-> "inf"]
Num(n) == [kind |-> "num", val |-> n]
IsNum(v) == v.kind = "num"

\* Python truthiness of an optional float: None and 0.0 are falsy.
Truthy(v) == v.kind = "inf" \/ (v.kind = "num" /\ v.val # 0)

\* mrp > 0
Positive(v) == v.kind = "inf" \/ (v.kind = "num" /\ v.val > 0)

\* ------------------------------------------------------------------------
\* SCRAPING
\* ------------------------------------------------------------------------
\* A card: h2a      the card has an h2 holding a link
\*         title    the text of the h2
\*         offscreen  what the first span.a-offscreen normalises to
\*         whole    what a-price-whole (+ a-price-fraction) parses to
\*         strike   what span.a-text-price > span.a-offscreen normalises to
parse_price_from_listing(it) ==
    IF it.offscreen # None THEN it.offscreen
    ELSE IF it.whole # None THEN it.whole
    ELSE None

parse_mrp_from_listing(it) == it.strike

\* discount = (mrp - price) / mrp * 100.0, kept as an exact fraction
Discount(mrp, price) == [num |-> (mrp - price) * 100, den |-> mrp]

\* MEGA_MIN <= discount <= MEGA_MAX, for den > 0
InMegaBandStrict(d) == MEGA_MIN * d.den < d.num /\ d.num < MEGA_MAX * d.den
InMegaBand(d) == MEGA_MIN * d.den <= d.num /\ d.num <= MEGA_MAX * d.den

\* the test of line 157-159: mrp and mrp > 0 and the discount in the band.
\* With mrp = inf the discount is nan, and every comparison with nan is false.
HighAlert(mrp, price) ==
    /\ Truthy(mrp) /\ Positive(mrp)
    /\ IsNum(mrp)
    /\ InMegaBand(Discount(mrp.val, price))

\* mutant: the ends of the price band are left out
InPriceBandExclusive(price) == MIN_PRICE < price /\ price < MAX_PRICE

\* (MIN_PRICE <= price <= MAX_PRICE)
InPriceBand(price) == MIN_PRICE <= price /\ price <= MAX_PRICE

BaseEntry(it, price, mrp) ==
    [title |-> it.title, price |-> price, mrp |-> mrp, high_alert |-> FALSE]

WithDiscount(e, d) ==
    [title |-> e.title, price |-> e.price, mrp |-> e.mrp,
     high_alert |-> e.high_alert, discount |-> d]

\* mutant: the discount is stored whenever it can be computed
MakeEntryAlwaysDiscount(it, price, mrp) ==
    LET e == BaseEntry(it, price, mrp) IN
    IF Truthy(mrp) /\ Positive(mrp) /\ IsNum(mrp)
    THEN WithDiscount([e EXCEPT !.high_alert = HighAlert(mrp, price)],
                      Discount(mrp.val, price))
    ELSE e

\* lines 148-161: the entry, marked high_alert and given its discount
\* only inside the band test
MakeEntry(it, price, mrp) ==
    LET e == BaseEntry(it, price, mrp) IN
    IF HighAlert(mrp, price)
    THEN WithDiscount([e EXCEPT !.high_alert = TRUE], Discount(mrp.val, price))
    ELSE e

\* line 164
Keeps(entry) == InPriceBand(entry.price) \/ entry.high_alert

\* mutant: the loop never stops at max_items
RECURSIVE ExtractNoCap(_, _, _, _)
ExtractNoCap(cards, i, products, max_items) ==
    IF i > Len(cards) THEN products
    ELSE LET it == cards[i]
             price == parse_price_from_listing(it)
             entry == MakeEntry(it, price.val, parse_mrp_from_listing(it))
         IN  IF ~it.h2a \/ price = None
             THEN ExtractNoCap(cards, i + 1, products, max_items)
             ELSE IF Keeps(entry)
             THEN ExtractNoCap(cards, i + 1, Append(products, entry), max_items)
             ELSE ExtractNoCap(cards, i + 1, products, max_items)

\* lines 131-171: the loop over the cards, from card i on
RECURSIVE Extract(_, _, _, _)
Extract(cards, i, products, max_items) ==
    IF i > Len(cards) \/ Len(products) >= max_items THEN products
    ELSE LET it == cards[i]
             price == parse_price_from_listing(it)
             entry == MakeEntry(it, price.val, parse_mrp_from_listing(it))
         IN  IF ~it.h2a \/ price = None
             THEN Extract(cards, i + 1, products, max_items)
             ELSE IF Keeps(entry)
             THEN Extract(cards, i + 1, Append(products, entry), max_items)
             ELSE Extract(cards, i + 1, products, max_items)

\* A response: ok = FALSE is a transport error, a timeout or a non-2xx
\* status (raise_for_status); cards are the s-search-result divs in
\* document order.
FailedResponse == [ok |-> FALSE, cards |-> <<>>]

fetch_category_products(resp, max_items) ==
    IF ~resp.ok THEN <<>> ELSE Extract(resp.cards, 1, <<>>, max_items)

\* ------------------------------------------------------------------------
\* MESSAGING
\* ------------------------------------------------------------------------
\* int(mrp) raises OverflowError for inf, in either template (lines 199, 209)
BuildRaises(product) == Truthy(product.mrp) /\ product.mrp = Inf

\* lines 184-217, without the time stamp and the affiliate link
build_message(product, category_name) ==
    IF product.high_alert /\ Truthy(product.mrp)
    THEN [template |-> "mega", category |-> category_name,
          title |-> product.title, price |-> product.price,
          mrp |-> product.mrp, discount |-> product.discount]
    ELSE [template |-> "standard", category |-> category_name,
          title |-> product.title, price |-> product.price,
          mrp |-> IF Truthy(product.mrp) THEN product.mrp ELSE None]

NoMsg == [template |-> "none"]

\* ------------------------------------------------------------------------
\* Inputs
\* ------------------------------------------------------------------------
Card(h2a, offscreen, whole, strike) ==
    [h2a |-> h2a, offscreen |-> offscreen, whole |-> whole, strike |-> strike]

\* the title of a card is its place in the document
Titled(s) ==
    [i \in 1..Len(s) |->
        [title |-> i, h2a |-> s[i].h2a, offscreen |-> s[i].offscreen,
         whole |-> s[i].whole, strike |-> s[i].strike]]

OkResponse(cards) == [ok |-> TRUE, cards |-> cards]

PriceValues == {40, 50, 149, 150, 200, 1000, 1001}
MrpValues == {None, Num(0), Num(1000), Inf}

ExtractCards ==
    {Card(h, o, w, m) :
        h \in BOOLEAN,
        o \in {None} \cup {Num(n) : n \in PriceValues},
        w \in {None, Num(500)},
        m \in MrpValues}

\* in the band, standard template
CardInBand == Card(TRUE, Num(500), None, None)
\* a mega deal below the band: 95% off
CardMega == Card(TRUE, Num(50), None, Num(1000))
\* a candidate that is neither
CardNeither == Card(TRUE, Num(1001), None, None)
\* in the band, with a strike-through price of inf
CardInfMrp == Card(TRUE, Num(500), None, Inf)

TailCards == {CardInBand, CardMega, CardNeither}
PipelineCards == {CardInBand, CardMega, CardNeither, CardInfMrp}

\* n1 copies of c1, then n2 copies of c2
RunPage(c1, n1, c2, n2) ==
    Titled([i \in 1..(n1 + n2) |-> IF i <= n1 THEN c1 ELSE c2])

ExtractResponses ==
    {FailedResponse} \cup
    {OkResponse(RunPage(c1, n1, c2, n2)) :
        c1 \in ExtractCards, n1 \in 0..MaxRun, c2 \in TailCards, n2 \in 0..MaxRun}

PipelineResponses ==
    {FailedResponse} \cup
    UNION {{OkResponse(Titled(s)) : s \in [1..n -> PipelineCards]} : n \in 0..MaxCards}

\* cards with a heading and a price at, next to and away from the ends of
\* the price band, with no strike-through price or one of 1000
BandCards ==
    {Card(TRUE, Num(p), None, m) : p \in PriceValues, m \in {None, Num(1000)}}

BandResponses ==
    {FailedResponse} \cup
    UNION {{OkResponse(Titled(s)) : s \in [1..n -> BandCards]} : n \in 0..MaxCards}

\* an empty page, and the pages of one card
SchedulerResponses ==
    {FailedResponse, OkResponse(<<>>)} \cup
    {OkResponse(Titled(<<c>>)) : c \in PipelineCards}

\* the responses a site can give to a request
Responses(s) ==
    IF s = "short pages" THEN SchedulerResponses
    ELSE IF s = "pages" THEN PipelineResponses
    ELSE IF s = "band pages" THEN BandResponses
    ELSE ExtractResponses

Tokens == {"", "REPLACE_WITH_YOUR_BOT_TOKEN", "7234182173:AAH"}
ChatIds == {"", "REPLACE_WITH_YOUR_CHAT_ID", "@lootproductsofficial"}
\* "REPLACE_WITH" in s
HasPlaceholder(s) == s \in {"REPLACE_WITH_YOUR_BOT_TOKEN", "REPLACE_WITH_YOUR_CHAT_ID"}

\* ------------------------------------------------------------------------
\* State
\* ------------------------------------------------------------------------
VARIABLES
    pc,                  \* where main() stands
    TELEGRAM_BOT_TOKEN,  \* settings, fixed at start
    TELEGRAM_CHAT_ID,
    CATEGORIES,          \* the configured category names, in order
    site,                \* the site polled: names the pages it can serve
    cat,                 \* run_check: index of the category in hand
    resp,                \* the response of the latest fetch
    products,            \* run_check: products of the category in hand
    idx,                 \* run_check: index of the product in hand
    msg,                 \* run_check: the message composed last in this category
    sent,                \* run_check: messages delivered in this pass
    elapsed,             \* seconds slept since the job was (re)scheduled,
                         \* 0 while a pass runs
    passes,              \* passes completed
    running,             \* passes in progress
    log,                 \* fetches and deliveries attempted in this pass, in order
    startup,             \* "none", "sent" or "failed": the startup notice
    fetched,             \* a page was requested at some time
    dispatched,          \* a message was handed to the sink at some time
    looped               \* the schedule loop was entered

vars == <<pc, TELEGRAM_BOT_TOKEN, TELEGRAM_CHAT_ID, CATEGORIES, site, cat, resp,
          products, idx, msg, sent, elapsed, passes, running, log, startup,
          fetched, dispatched, looped>>

config == <<TELEGRAM_BOT_TOKEN, TELEGRAM_CHAT_ID, CATEGORIES, site>>
locals == <<cat, resp, products, idx, msg, sent>>
history == <<startup, fetched, dispatched, looped>>

FetchEvent(name, ok) == [ev |-> "fetch", cat |-> name, ok |-> ok, title |-> 0]
SendEvent(m) == [ev |-> "send", cat |-> m.category, ok |-> TRUE, title |-> m.title]

\* ------------------------------------------------------------------------
\* BOT & JOBS
\* ------------------------------------------------------------------------
\* mutant: the placeholder tests are left out
validate_config_no_placeholder ==
    /\ TELEGRAM_BOT_TOKEN # ""
    /\ TELEGRAM_CHAT_ID # ""
    /\ CATEGORIES # <<>>

\* lines 224-237
validate_config ==
    /\ ~(TELEGRAM_BOT_TOKEN = "" \/ HasPlaceholder(TELEGRAM_BOT_TOKEN))
    /\ ~(TELEGRAM_CHAT_ID = "" \/ HasPlaceholder(TELEGRAM_CHAT_ID))
    /\ CATEGORIES # <<>>

IdleLocals ==
    /\ cat = 0 /\ resp = FailedResponse /\ products = <<>>
    /\ idx = 0 /\ msg = NoMsg /\ sent = 0

Init ==
    /\ pc = "main"
    /\ TELEGRAM_BOT_TOKEN \in Tokens
    /\ TELEGRAM_CHAT_ID \in ChatIds
    /\ CATEGORIES \in {SubSeq(ALL_CATEGORIES, 1, n) : n \in 0..MaxCats}
    /\ site = "short pages"
    /\ IdleLocals
    /\ elapsed = 0 /\ passes = 0 /\ running = 0 /\ log = <<>>
    /\ startup = "none" /\ fetched = FALSE /\ dispatched = FALSE
    /\ looped = FALSE

\* lines 259-262
main_validate ==
    /\ pc = "main"
    /\ pc' = IF validate_config THEN "startup" ELSE "exit"
    /\ UNCHANGED <<config, locals, elapsed, passes, running, log, history>>

\* mutant: a startup notice that fails ends main
main_startup_fatal ==
    /\ pc = "startup"
    /\ \E ok \in BOOLEAN :
        /\ startup' = IF ok THEN "sent" ELSE "failed"
        /\ pc' = IF ok THEN "first_pass" ELSE "exit"
    /\ UNCHANGED <<config, locals, elapsed, passes, running, log,
                   fetched, dispatched, looped>>

\* lines 265-268
main_startup ==
    /\ pc = "startup"
    /\ \E ok \in BOOLEAN : startup' = IF ok THEN "sent" ELSE "failed"
    /\ pc' = "first_pass"
    /\ UNCHANGED <<config, locals, elapsed, passes, running, log,
                   fetched, dispatched, looped>>

\* run_check is entered: sent = 0 and the first category is in hand.
\* Nothing reads the clock while the pass runs: the count of seconds
\* starts again when the job is scheduled anew.
EnterRunCheck ==
    /\ pc' = IF CATEGORIES = <<>> THEN "pass_end" ELSE "fetch"
    /\ cat' = 1 /\ sent' = 0 /\ log' = <<>>
    /\ running' = running + 1
    /\ elapsed' = 0
    /\ UNCHANGED <<resp, products, idx, msg>>

\* line 271
main_first_pass ==
    /\ pc = "first_pass"
    /\ EnterRunCheck
    /\ UNCHANGED <<config, passes, history>>

\* the for loop of line 242 moves to the next category, or ends
NextCategory ==
    IF cat < Len(CATEGORIES)
    THEN cat' = cat + 1 /\ pc' = "fetch"
    ELSE cat' = cat /\ pc' = "pass_end"

\* mutant: a failed fetch ends the pass
run_check_fetch_abort ==
    /\ pc = "fetch"
    /\ \E r \in Responses(site) :
        /\ resp' = r
        /\ products' = fetch_category_products(r, MAX_ITEMS)
        /\ log' = Append(log, FetchEvent(CATEGORIES[cat], r.ok))
        /\ IF ~r.ok THEN cat' = cat /\ pc' = "pass_end" /\ idx' = 0
           ELSE IF products' = <<>> THEN NextCategory /\ idx' = 0
           ELSE pc' = "send" /\ idx' = 1 /\ cat' = cat
    /\ msg' = NoMsg
    /\ fetched' = TRUE
    /\ UNCHANGED <<config, sent, elapsed, passes, running, startup,
                   dispatched, looped>>

\* mutant: the categories are visited last to first
run_check_fetch_backwards ==
    /\ pc = "fetch"
    /\ \E r \in Responses(site) :
        /\ resp' = r
        /\ products' = fetch_category_products(r, MAX_ITEMS)
        /\ log' = Append(log,
                FetchEvent(CATEGORIES[Len(CATEGORIES) + 1 - cat], r.ok))
        /\ IF products' = <<>> THEN NextCategory /\ idx' = 0
           ELSE pc' = "send" /\ idx' = 1 /\ cat' = cat
    /\ msg' = NoMsg
    /\ fetched' = TRUE
    /\ UNCHANGED <<config, sent, elapsed, passes, running, startup,
                   dispatched, looped>>

\* line 244: the page of the category in hand is requested once and its
\* products extracted; with no products the inner loop has nothing to do
run_check_fetch ==
    /\ pc = "fetch"
    /\ \E r \in Responses(site) :
        /\ resp' = r
        /\ products' = fetch_category_products(r, MAX_ITEMS)
        /\ log' = Append(log, FetchEvent(CATEGORIES[cat], r.ok))
        /\ IF products' = <<>> THEN NextCategory /\ idx' = 0
           ELSE pc' = "send" /\ idx' = 1 /\ cat' = cat
    /\ msg' = NoMsg
    /\ fetched' = TRUE
    /\ UNCHANGED <<config, sent, elapsed, passes, running, startup,
                   dispatched, looped>>

\* mutant: a message whose delivery fails is sent once more
run_check_send_retry ==
    /\ pc = "send"
    /\ LET p == products[idx] IN
        IF BuildRaises(p)
        THEN /\ NextCategory
             /\ UNCHANGED <<idx, msg, sent, log, dispatched>>
        ELSE LET m == build_message(p, CATEGORIES[cat]) IN
             /\ msg' = m
             /\ dispatched' = TRUE
             /\ \E ok \in BOOLEAN :
                 /\ sent' = IF ok THEN sent + 1 ELSE sent
                 /\ log' = IF ok THEN Append(log, SendEvent(m))
                           ELSE Append(Append(log, SendEvent(m)), SendEvent(m))
             /\ IF idx < Len(products)
                THEN idx' = idx + 1 /\ pc' = "send" /\ cat' = cat
                ELSE idx' = idx /\ NextCategory
    /\ UNCHANGED <<config, resp, products, elapsed, passes, running,
                   startup, fetched, looped>>

\* lines 245-254: one turn of the inner loop.  build_message stands outside
\* the inner try: when it raises, the outer except ends the category.
run_check_send ==
    /\ pc = "send"
    /\ LET p == products[idx] IN
        IF BuildRaises(p)
        THEN /\ NextCategory
             /\ UNCHANGED <<idx, msg, sent, log, dispatched>>
        ELSE LET m == build_message(p, CATEGORIES[cat]) IN
             /\ msg' = m
             /\ dispatched' = TRUE
             /\ log' = Append(log, SendEvent(m))
             /\ \E ok \in BOOLEAN : sent' = IF ok THEN sent + 1 ELSE sent
             /\ IF idx < Len(products)
                THEN idx' = idx + 1 /\ pc' = "send" /\ cat' = cat
                ELSE idx' = idx /\ NextCategory
    /\ UNCHANGED <<config, resp, products, elapsed, passes, running,
                   startup, fetched, looped>>

\* line 255, and the return to the caller: main after the first pass,
\* the job of the schedule after the others, which is then scheduled anew
run_check_end ==
    /\ pc = "pass_end"
    /\ pc' = IF passes = 0 THEN "schedule" ELSE "sleep"
    /\ passes' = passes + 1
    /\ running' = running - 1
    /\ elapsed' = 0
    /\ cat' = 0 /\ resp' = FailedResponse /\ products' = <<>>
    /\ idx' = 0 /\ msg' = NoMsg /\ sent' = 0 /\ log' = <<>>
    /\ UNCHANGED <<config, history>>

\* line 274: the job is due CHECK_INTERVAL_MIN minutes from now
main_schedule ==
    /\ pc = "schedule"
    /\ elapsed' = 0
    /\ looped' = TRUE
    /\ pc' = "run_pending"
    /\ UNCHANGED <<config, locals, passes, running, log, startup,
                   fetched, dispatched>>

\* the job is due
ShouldRunAlways == TRUE
ShouldRun == elapsed >= CHECK_INTERVAL_MIN * 60

\* line 277: a due job is run in the loop's own thread
main_run_pending ==
    /\ pc = "run_pending"
    /\ IF ShouldRun
       THEN /\ passes <= MaxPasses
            /\ EnterRunCheck
       ELSE /\ pc' = "sleep"
            /\ UNCHANGED <<locals, running, log, elapsed>>
    /\ UNCHANGED <<config, passes, history>>

\* line 278
main_sleep ==
    /\ pc = "sleep"
    /\ \E late \in 0..MaxJitter : elapsed' = elapsed + SLEEP_SLICE + late
    /\ pc' = "run_pending"
    /\ UNCHANGED <<config, locals, passes, running, log, history>>

Next ==
    \/ main_validate
    \/ main_startup
    \/ main_first_pass
    \/ run_check_fetch
    \/ run_check_send
    \/ run_check_end
    \/ main_schedule
    \/ main_run_pending
    \/ main_sleep

Spec == Init /\ [][Next]_vars

\* ------------------------------------------------------------------------
\* One pass of run_check, as main calls it after the startup notice
\* ------------------------------------------------------------------------
InitPass ==
    /\ pc = "first_pass"
    /\ TELEGRAM_BOT_TOKEN = "7234182173:AAH"
    /\ TELEGRAM_CHAT_ID = "@lootproductsofficial"
    /\ CATEGORIES \in {SubSeq(ALL_CATEGORIES, 1, n) : n \in 1..MaxCats}
    /\ site = "pages"
    /\ IdleLocals
    /\ elapsed = 0 /\ passes = 0 /\ running = 0 /\ log = <<>>
    /\ startup \in {"sent", "failed"}
    /\ fetched = FALSE /\ dispatched = FALSE /\ looped = FALSE

NextPass ==
    \/ main_first_pass
    \/ run_check_fetch
    \/ run_check_send
    \/ run_check_end

SpecPass == InitPass /\ [][NextPass]_vars

\* ------------------------------------------------------------------------
\* One pass of run_check over one category and the pages of BandCards
\* ------------------------------------------------------------------------
InitBand ==
    /\ pc = "first_pass"
    /\ TELEGRAM_BOT_TOKEN = "7234182173:AAH"
    /\ TELEGRAM_CHAT_ID = "@lootproductsofficial"
    /\ CATEGORIES = SubSeq(ALL_CATEGORIES, 1, 1)
    /\ site = "band pages"
    /\ IdleLocals
    /\ elapsed = 0 /\ passes = 0 /\ running = 0 /\ log = <<>>
    /\ startup = "sent"
    /\ fetched = FALSE /\ dispatched = FALSE /\ looped = FALSE

SpecBand == InitBand /\ [][NextPass]_vars

\* ------------------------------------------------------------------------
\* fetch_category_products on its own
\* ------------------------------------------------------------------------
InitExtract ==
    /\ pc = "page"
    /\ site = "long pages"
    /\ resp \in Responses(site)
    /\ TELEGRAM_BOT_TOKEN = "7234182173:AAH"
    /\ TELEGRAM_CHAT_ID = "@lootproductsofficial"
    /\ CATEGORIES = ALL_CATEGORIES
    /\ cat = 0 /\ products = <<>> /\ idx = 0 /\ msg = NoMsg /\ sent = 0
    /\ elapsed = 0 /\ passes = 0 /\ running = 0 /\ log = <<>>
    /\ startup = "none" /\ fetched = FALSE /\ dispatched = FALSE
    /\ looped = FALSE

\* fetch_category_products(url, max_items=12) on the response drawn
extract_page ==
    /\ pc = "page"
    /\ products' = fetch_category_products(resp, MAX_ITEMS)
    /\ pc' = "extracted"
    /\ fetched' = TRUE
    /\ UNCHANGED <<config, cat, resp, idx, msg, sent, elapsed, passes,
                   running, log, startup, dispatched, looped>>

NextExtract == extract_page

SpecExtract == InitExtract /\ [][NextExtract]_vars

\* ------------------------------------------------------------------------
\* Properties
\* ------------------------------------------------------------------------
\* The statements below restate the rules in their own words, with the
\* thresholds written out, and compare them with what the actions did.

\* isMegaDeal as stated: mrp present, mrp > 0, 80 <= (mrp - price)/mrp*100 <= 95
IsMegaDeal(price, mrp) ==
    /\ mrp.kind = "num"
    /\ mrp.val > 0
    /\ 80 * mrp.val <= (mrp.val - price) * 100
    /\ (mrp.val - price) * 100 <= 95 * mrp.val

\* qualifies as stated: price in [150, 1000] or a mega deal
Qualifies(price, mrp) ==
    (150 <= price /\ price <= 1000) \/ IsMegaDeal(price, mrp)

\* a candidate: a card with a heading link and a resolvable price
IsCandidate(c) == c.h2a /\ (c.offscreen # None \/ c.whole # None)
PriceOf(c) == IF c.offscreen # None THEN c.offscreen.val ELSE c.whole.val

QualifyingCard(c) == IsCandidate(c) /\ Qualifies(PriceOf(c), c.strike)

Titles(s) == [i \in 1..Len(s) |-> s[i].title]
Take(s, n) == SubSeq(s, 1, IF Len(s) < n THEN Len(s) ELSE n)

\* the titles of the qualifying cards of a page, in document order
QualifyingTitles(cards) == Titles(SelectSeq(cards, QualifyingCard))

IsFetch(e) == e.ev = "fetch"
IsSend(e) == e.ev = "send"
Fetches == SelectSeq(log, IsFetch)
Sends == SelectSeq(log, IsSend)
SendsOf(name) == SelectSeq(log, LAMBDA e : e.ev = "send" /\ e.cat = name)
FetchesOf(name) == SelectSeq(log, LAMBDA e : e.ev = "fetch" /\ e.cat = name)

\* the category fetched last, and the deliveries attempted for it
LastFetched == Fetches[Len(Fetches)].cat
CurrentSends == IF Fetches = <<>> THEN <<>> ELSE SendsOf(LastFetched)

\* the inner loop of the category fetched last is over
CategoryOver == pc # "send" /\ Fetches # <<>>

\* the first product whose message cannot be composed, or none
RaisesAt(ps) == {i \in 1..Len(ps) : ps[i].mrp = Inf}
Composable(ps) ==
    IF RaisesAt(ps) = {} THEN ps
    ELSE SubSeq(ps, 1, (CHOOSE i \in RaisesAt(ps) : \A j \in RaisesAt(ps) : i <= j) - 1)

\* C1: in every pass a failed fetch (transport error, timeout, non-2xx) is
\* attempted once and not again, no message is dispatched for its category,
\* and every category configured after it is still fetched in the same pass:
\* the fetches of a pass are one per category, in configured order, and a
\* pass has ended only when every category was fetched.
C1_FetchFailureIsolated ==
    /\ Len(Fetches) <= Len(CATEGORIES)
    /\ \A i \in 1..Len(Fetches) : Fetches[i].cat = CATEGORIES[i]
    /\ \A i \in 1..Len(log) :
        (IsFetch(log[i]) /\ ~log[i].ok) => SendsOf(log[i].cat) = <<>>
    /\ pc = "pass_end" => Len(Fetches) = Len(CATEGORIES)

\* the first category failed, and a message of the second was dispatched
C1_Witness ==
    /\ pc = "pass_end"
    /\ Len(log) >= 3
    /\ IsFetch(log[1]) /\ ~log[1].ok
    /\ IsFetch(log[2]) /\ log[2].ok /\ log[2].cat = CATEGORIES[2]
    /\ IsSend(log[3]) /\ log[3].cat = CATEGORIES[2]

\* C2: in every pass each composed message is handed to the sink exactly
\* once: no listing of a category is dispatched twice, while the inner loop
\* runs the listings before the one in hand were each dispatched, and when
\* it is over every listing that could be composed was dispatched, whatever
\* the outcome of the deliveries (sent counts only the successful ones).
C2_EachMessageOnce ==
    /\ \A i, j \in 1..Len(log) :
        (i < j /\ IsSend(log[i]) /\ IsSend(log[j]))
            => (log[i].cat # log[j].cat \/ log[i].title # log[j].title)
    /\ pc = "send" => Titles(CurrentSends) = Titles(SubSeq(products, 1, idx - 1))
    /\ CategoryOver => Titles(CurrentSends) = Titles(Composable(products))
    /\ sent <= Len(Sends)

\* every delivery of the pass failed, yet two messages of one category and
\* a message of another category were all attempted
C2_Witness ==
    /\ pc = "pass_end"
    /\ sent = 0
    /\ Len(CurrentSends) >= 2
    /\ Len(Sends) > Len(CurrentSends)

\* C3: a listing is composed and offered for delivery only if it qualifies
\* (price in [150, 1000] inclusive, or a mega deal): every dispatch of the
\* category in hand is for a qualifying card of its page, and, below the
\* max_items cap and unless composition raises, every qualifying card of the
\* page is dispatched, in the band or not, a mega deal or not.
C3_OnlyQualifyingDispatched ==
    /\ \A i \in 1..Len(CurrentSends) :
        QualifyingCard(resp.cards[CurrentSends[i].title])
    /\ msg # NoMsg => Qualifies(msg.price, resp.cards[msg.title].strike)
    /\ (CategoryOver /\ RaisesAt(products) = {} /\ Len(products) < MAX_ITEMS)
        => \A k \in 1..Len(resp.cards) :
            QualifyingCard(resp.cards[k])
                => \E i \in 1..Len(CurrentSends) : CurrentSends[i].title = k

\* a page of a listing at 149 and a listing at 150, neither with a
\* strike-through price: only the one at 150, the lower end of the band,
\* was dispatched
C3_Witness ==
    /\ CategoryOver
    /\ resp = OkResponse(Titled(<<Card(TRUE, Num(149), None, None),
                                   Card(TRUE, Num(150), None, None)>>))
    /\ Titles(CurrentSends) = <<2>>
    /\ msg # NoMsg /\ msg.price = 150 /\ msg.template = "standard"

\* C5: the attempts of a pass are ordered: categories are fetched in
\* configured order, every dispatch follows the fetch of its own category
\* with nothing of another category in between, the dispatches of a
\* category follow the document order of its page, and they are a function
\* of the page: a prefix of its qualifying cards in document order, all of
\* them (up to max_items) once the category is over and nothing raised.
C5_OrderedAttempts ==
    /\ Len(Fetches) <= Len(CATEGORIES)
    /\ \A i \in 1..Len(Fetches) : Fetches[i].cat = CATEGORIES[i]
    /\ \A i \in 1..Len(log) :
        IsSend(log[i]) =>
            \E k \in 1..(i - 1) :
                /\ IsFetch(log[k]) /\ log[k].cat = log[i].cat
                /\ \A m \in (k + 1)..i : IsSend(log[m]) /\ log[m].cat = log[i].cat
    /\ \A i, j \in 1..Len(log) :
        (i < j /\ IsSend(log[i]) /\ IsSend(log[j]) /\ log[i].cat = log[j].cat)
            => log[i].title < log[j].title
    /\ LET want == Take(QualifyingTitles(resp.cards), MAX_ITEMS)
           got == Titles(CurrentSends)
       IN  /\ Len(got) <= Len(want)
           /\ got = SubSeq(want, 1, Len(got))
           /\ (CategoryOver /\ RaisesAt(products) = {}) => got = want

\* two categories, two dispatches for the first and then one for the second
C5_Witness ==
    /\ pc = "pass_end"
    /\ Len(CATEGORIES) = 2
    /\ Len(log) = 5
    /\ Titles(SendsOf(CATEGORIES[1])) = <<1, 2>>
    /\ Len(SendsOf(CATEGORIES[2])) = 1

\* C6: with a valid configuration main attempts the startup notice before
\* anything else and then runs one full pass at once: no page is requested
\* and no pass runs before the notice was attempted, a notice that failed
\* never ends main, the first pass fetches every configured category, and
\* until it has completed the loop was not entered and nothing was waited.
C6_StartupThenFirstPass ==
    /\ (fetched \/ running > 0 \/ pc = "first_pass") => startup # "none"
    /\ startup # "none" => pc # "exit"
    /\ passes = 0 => (~looped /\ elapsed = 0)
    /\ looped => passes >= 1
    /\ (pc = "pass_end" /\ passes = 0) =>
        /\ Len(Fetches) = Len(CATEGORIES)
        /\ \A i \in 1..Len(Fetches) : Fetches[i].cat = CATEGORIES[i]

\* the notice failed and the first pass has fetched both categories
C6_Witness ==
    /\ startup = "failed"
    /\ pc = "pass_end" /\ passes = 0
    /\ Len(Fetches) = 2
    /\ ~looped

\* C7: a pass starts only when no pass is in progress, and after the first
\* pass only on a tick of the loop at which at least the poll interval
\* (5 minutes) has gone by since the job was scheduled, that is since the
\* previous pass returned.
C7_IntervalBetweenPasses ==
    [][running' > running =>
        /\ running = 0
        /\ \/ pc = "first_pass" /\ passes = 0
           \/ pc = "run_pending" /\ passes >= 1 /\ elapsed >= 5 * 60]_vars

\* a scheduled pass is in progress
C7_Witness ==
    /\ passes = 1
    /\ running = 1
    /\ pc = "send"

\* the configuration is invalid, as the claim words it
ConfigInvalid ==
    \/ TELEGRAM_BOT_TOKEN \in {"", "REPLACE_WITH_YOUR_BOT_TOKEN"}
    \/ TELEGRAM_CHAT_ID \in {"", "REPLACE_WITH_YOUR_CHAT_ID"}
    \/ Len(CATEGORIES) = 0

\* C8: with an invalid configuration main returns at once: no startup
\* notice, no page requested, no message dispatched, no pass and no loop;
\* and main returns for no other reason: whatever fetch or delivery failed,
\* main has returned only if the configuration was invalid.
C8_InvalidConfigExits ==
    /\ ConfigInvalid =>
        /\ pc \in {"main", "exit"}
        /\ startup = "none" /\ ~fetched /\ ~dispatched /\ ~looped
        /\ passes = 0 /\ running = 0 /\ log = <<>>
    /\ pc = "exit" => ConfigInvalid

\* main returned because the recipient was a placeholder, all else valid
C8_Witness ==
    /\ pc = "exit"
    /\ TELEGRAM_CHAT_ID = "REPLACE_WITH_YOUR_CHAT_ID"
    /\ TELEGRAM_BOT_TOKEN = "7234182173:AAH"
    /\ Len(CATEGORIES) = 2

\* C4: a listing is a mega deal if and only if its mrp is present and
\* positive and (mrp - price) / mrp * 100 lies in [80, 95], both ends
\* included: every product returned is marked so exactly then, below the
\* cap every candidate that is a mega deal is returned marked, with
\* mrp = 1000 the prices 200 and 50 are marked and 40 (96%, below the price
\* band) is not returned, and a product without mrp is never marked.
C4_MegaDealBand ==
    pc = "extracted" =>
        /\ \A i \in 1..Len(products) :
            LET e == products[i] IN
            /\ e.high_alert <=> IsMegaDeal(e.price, e.mrp)
            /\ e.mrp = None => ~e.high_alert
            /\ e.mrp = Num(1000) =>
                /\ e.price \in {200, 50} => e.high_alert
                /\ e.price # 40
        /\ Len(products) < MAX_ITEMS =>
            \A k \in 1..Len(resp.cards) :
                LET c == resp.cards[k] IN
                (IsCandidate(c) /\ IsMegaDeal(PriceOf(c), c.strike))
                    => \E i \in 1..Len(products) :
                        products[i].title = k /\ products[i].high_alert

\* 80% and 95% off 1000 are both returned as mega deals
C4_Witness ==
    /\ pc = "extracted"
    /\ \E i, j \in 1..Len(products) :
        /\ products[i].mrp = Num(1000) /\ products[i].price = 200
        /\ products[i].high_alert
        /\ products[j].mrp = Num(1000) /\ products[j].price = 50
        /\ products[j].high_alert

CandidateTitles(cards) == Titles(SelectSeq(cards, IsCandidate))

\* C9 as stated: the walk stops at the 12th candidate, counted before
\* classification, so no product comes from a card after that candidate.
C9_CapOnCandidates ==
    pc = "extracted" =>
        LET cand == CandidateTitles(resp.cards) IN
        Len(cand) > MAX_ITEMS =>
            \A i \in 1..Len(products) : products[i].title <= cand[MAX_ITEMS]

\* C9, amended: the walk stops once 12 qualifying listings were accepted:
\* the products are the first 12 qualifying cards of the page in document
\* order, so there are at most 12 and no card after the 12th qualifying
\* one yields a product.
C9_CapOnQualifying ==
    pc = "extracted" =>
        /\ Len(products) <= MAX_ITEMS
        /\ Titles(products) = Take(QualifyingTitles(resp.cards), MAX_ITEMS)

\* a candidate that does not qualify, then 13 cards that do: 12 products,
\* the last of them from the 13th candidate
C9_Witness ==
    /\ pc = "extracted"
    /\ Len(resp.cards) = 14
    /\ IsCandidate(resp.cards[1]) /\ ~QualifyingCard(resp.cards[1])
    /\ Len(QualifyingTitles(resp.cards)) = 13
    /\ Len(products) = 12
    /\ products[12].title = 13

\* C10 as stated: a product carries a discount if and only if its mrp is
\* present and positive.
C10_DiscountIffMrp ==
    pc = "extracted" =>
        \A i \in 1..Len(products) :
            ("discount" \in DOMAIN products[i])
                <=> (products[i].mrp # None /\ Positive(products[i].mrp))

\* C10, amended: a product carries a discount if and only if it is a mega
\* deal, and then it is (mrp - price) / mrp * 100; a product in the price
\* band whose mrp is positive but whose discount is outside [80, 95]
\* carries none, like a product without mrp.
C10_DiscountIffMega ==
    pc = "extracted" =>
        \A i \in 1..Len(products) :
            LET e == products[i] IN
            /\ ("discount" \in DOMAIN e) <=> IsMegaDeal(e.price, e.mrp)
            /\ ("discount" \in DOMAIN e) =>
                e.discount = [num |-> (e.mrp.val - e.price) * 100, den |-> e.mrp.val]

\* a product in the band at 0% off 1000 without discount, and a mega deal
\* with one
C10_Witness ==
    /\ pc = "extracted"
    /\ \E i, j \in 1..Len(products) :
        /\ products[i].mrp = Num(1000) /\ products[i].price = 1000
        /\ "discount" \notin DOMAIN products[i]
        /\ "discount" \in DOMAIN products[j]

====
